---- MODULE Spec2Model ----
(***************************************************************************)
(* Model of the ComBase predictive-model subsystem: the model registry     *)
(* (app/engines/combase/models.py), the calculator                         *)
(* (app/engines/combase/calculator.py) and the execution engine            *)
(* (app/engines/combase/engine.py).                                        *)
(*                                                                         *)
(* Numbers.  The code computes on IEEE doubles; the model computes on      *)
(* fixed-point integers:                                                   *)
(*   temperature, pH, fourth factor   whole units                          *)
(*   water activity aw, term bw       1/AwScale                            *)
(*   coefficients b0..b14             1/CoefScale                          *)
(*   ln(mu)                           1/LnScale  (= CoefScale * AwScale^2) *)
(*   mu, doubling time, log increase  1/MuScale                            *)
(*   durations in hours               1/HourScale                          *)
(* math.exp keeps its three regimes: it raises OverflowError above the     *)
(* largest argument, returns 0.0 below the smallest one and is positive    *)
(* in between (a double overflows above 709.78 and underflows to 0.0 below *)
(* -745.13; here the overflow threshold is ExpMaxArg and the result is 0   *)
(* when it is below 1/MuScale).                                            *)
(***************************************************************************)
EXTENDS Integers, Sequences, FiniteSets, TLC

VARIABLES models, by_organism, by_type, loaded, model_path, loads, last,
          loading, _engine, instances

vars == <<models, by_organism, by_type, loaded, model_path, loads, last,
          loading, _engine, instances>>

(***************************************************************************)
(* Units                                                                   *)
(***************************************************************************)
AwScale == 10 * 10
CoefScale == 2 * 5
LnScale == CoefScale * AwScale * AwScale
MuScale == 10 * 100
HourScale == 10 * 10
FracScale == 10 * 100

\* Optional values: None is the empty tuple, Some(v) the one-element tuple.
None == <<>>
Some(v) == <<v>>

Max2(a, b) == IF a >= b THEN a ELSE b
Min2(a, b) == IF a <= b THEN a ELSE b

(***************************************************************************)
(* Enumerations (app/models/enums.py)                                      *)
(***************************************************************************)
GROWTH == "growth"
THERMAL_INACTIVATION == "thermal_inactivation"
NON_THERMAL_SURVIVAL == "non_thermal_survival"
ModelType == {GROWTH, THERMAL_INACTIVATION, NON_THERMAL_SURVIVAL}

F4_NONE == "none"
F4_CO2 == "co2"
F4_NITRITE == "nitrite"
F4_LACTIC_ACID == "lactic_acid"
F4_ACETIC_ACID == "acetic_acid"
Factor4Type == {F4_NONE, F4_CO2, F4_NITRITE, F4_LACTIC_ACID, F4_ACETIC_ACID}

\* ModelType.from_model_id: an unknown id maps to GROWTH.
from_model_id(model_id) ==
    CASE model_id = 1 -> GROWTH
      [] model_id = 2 -> THERMAL_INACTIVATION
      [] model_id = 3 -> NON_THERMAL_SURVIVAL
      [] OTHER -> GROWTH

\* Factor4Type.from_string: None, "NULL" (any case) and "" are NONE; an
\* unknown name is NONE as well.  The strings are the raw CSV cells.
Factor4FromString(value) ==
    CASE value \in {"<missing>", "NULL", "null", ""} -> F4_NONE
      [] value \in {"co2", "CO2", " co2", "carbon_dioxide"} -> F4_CO2
      [] value \in {"nitrite", "Nitrite"} -> F4_NITRITE
      [] value \in {"lactic_acid", "lactic"} -> F4_LACTIC_ACID
      [] value \in {"acetic_acid", "acetic"} -> F4_ACETIC_ACID
      [] OTHER -> F4_NONE

(***************************************************************************)
(* ComBaseModelConstraints (app/engines/combase/models.py)                 *)
(* A constraints record has the six required bounds and the two optional   *)
(* fourth-factor bounds (None or Some(v)).                                 *)
(***************************************************************************)
is_temperature_valid(c, temp) == c.temp_min <= temp /\ temp <= c.temp_max

is_ph_valid(c, ph) == c.ph_min <= ph /\ ph <= c.ph_max

is_aw_valid(c, aw) == c.aw_min <= aw /\ aw <= c.aw_max

\* Variant: the fourth factor is never found out of range.
is_factor4_valid_Always(c, value) == TRUE

is_factor4_valid(c, value) ==
    IF c.factor4_min = None \/ c.factor4_max = None
    THEN TRUE
    ELSE c.factor4_min[1] <= value /\ value <= c.factor4_max[1]

clamp_temperature(c, temp) == Max2(c.temp_min, Min2(temp, c.temp_max))

clamp_ph(c, ph) == Max2(c.ph_min, Min2(ph, c.ph_max))

clamp_aw(c, aw) == Max2(c.aw_min, Min2(aw, c.aw_max))

clamp_factor4(c, value) ==
    IF c.factor4_min = None \/ c.factor4_max = None
    THEN value
    ELSE Max2(c.factor4_min[1], Min2(value, c.factor4_max[1]))

(***************************************************************************)
(* Floating-point library functions, in fixed point                        *)
(***************************************************************************)
\* math.exp raises OverflowError from ExpMaxArg on (argument in whole units
\* of ln); a result below the smallest representable magnitude is 0.
ExpMaxArg == 4

\* floor(e^n * MuScale) for the whole part n of the argument.
ExpInt(n) ==
    CASE n <= -7 -> 0
      [] n = -6 -> 2
      [] n = -5 -> 6
      [] n = -4 -> 18
      [] n = -3 -> 49
      [] n = -2 -> 135
      [] n = -1 -> 367
      [] n = 0 -> 1000
      [] n = 1 -> 2718
      [] n = 2 -> 7389
      [] n = 3 -> 20085
      [] n = 4 -> 54598
      [] n = 5 -> 148413
      [] OTHER -> 403428

\* e^(r / LnScale) * FracScale for the fractional part 0 <= r < LnScale,
\* by the series 1 + q + q^2/2 + q^3/6 on hundredths.
ExpFrac(r) ==
    LET q == (r * 100) \div LnScale
    IN  1000 + 10 * q + (q * q) \div 20 + (q * q * q) \div 6000

math_exp_raises(x) == x >= ExpMaxArg * LnScale

math_exp(x) == (ExpInt(x \div LnScale) * ExpFrac(x % LnScale)) \div FracScale

\* math.sqrt on a value in 1/AwScale, result in 1/AwScale: the largest n
\* with n * n <= x * AwScale.
math_sqrt(x) ==
    CHOOSE n \in 0..(AwScale * 2) :
        /\ n * n <= x * AwScale
        /\ (n + 1) * (n + 1) > x * AwScale

\* math.log(2) and math.log(10), in 1/MuScale.
LN2 == 693
LN10 == 2303

(***************************************************************************)
(* ComBaseCalculator (app/engines/combase/calculator.py)                   *)
(* A model record m carries model_id, organism_id, model_type,             *)
(* factor4_type, coefficients and constraints.                             *)
(***************************************************************************)
Warning(dim, kind, value, lo, hi) ==
    [dim |-> dim, kind |-> kind, value |-> value, min |-> lo, max |-> hi]

\* _calculate_bw: bw = aw for thermal inactivation, sqrt(max(0, 1 - aw))
\* for growth and non-thermal survival.
_calculate_bw(m, aw) ==
    IF m.model_type = THERMAL_INACTIVATION
    THEN aw
    ELSE math_sqrt(Max2(0, AwScale - aw))

\* "while len(b) < 15: b = list(b) + [0.0]"
Pad15(b) == [i \in 1..Max2(15, Len(b)) |-> IF i <= Len(b) THEN b[i] ELSE 0]

\* Variant: the T*pH and T*bw coefficients change places.
_calculate_ln_mu_Swapped(m, tr, pr, bw, ef4) ==
    LET b == Pad15(m.coefficients)
        A == AwScale
    IN    b[1] * A * A
        + b[2] * tr * A * A
        + b[3] * pr * A * A
        + b[4] * bw * A
        + b[6] * tr * pr * A * A
        + b[5] * tr * bw * A
        + b[7] * pr * bw * A
        + b[8] * tr * tr * A * A
        + b[9] * pr * pr * A * A
        + b[10] * bw * bw
        + b[11] * ef4 * A * A
        + b[12] * tr * ef4 * A * A
        + b[13] * pr * ef4 * A * A
        + b[14] * bw * ef4 * A
        + b[15] * ef4 * ef4 * A * A

\* _calculate_ln_mu: the 15-term polynomial; b[i+1] is the code's b[i].
\* Every term is brought to 1/LnScale.
_calculate_ln_mu(m, tr, pr, bw, ef4) ==
    LET b == Pad15(m.coefficients)
        A == AwScale
    IN    b[1] * A * A
        + b[2] * tr * A * A
        + b[3] * pr * A * A
        + b[4] * bw * A
        + b[5] * tr * pr * A * A
        + b[6] * tr * bw * A
        + b[7] * pr * bw * A
        + b[8] * tr * tr * A * A
        + b[9] * pr * pr * A * A
        + b[10] * bw * bw
        + b[11] * ef4 * A * A
        + b[12] * tr * ef4 * A * A
        + b[13] * pr * ef4 * A * A
        + b[14] * bw * ef4 * A
        + b[15] * ef4 * ef4 * A * A

\* Variant: the sign of the rate does not follow the model type.
_calculate_mu_Unsigned(m, ln_mu) == math_exp(ln_mu)

\* _calculate_mu: exp(ln_mu) for growth, -exp(ln_mu) otherwise.
_calculate_mu(m, ln_mu) ==
    IF m.model_type = GROWTH
    THEN math_exp(ln_mu)
    ELSE 0 - math_exp(ln_mu)

\* _calculate_doubling_time: None unless growth with mu > 0.
_calculate_doubling_time(m, mu_max) ==
    IF m.model_type # GROWTH
    THEN None
    ELSE IF mu_max <= 0
         THEN None
         ELSE Some((LN2 * MuScale) \div mu_max)

\* Variant: the division by ln(10) is applied to every rate.
calculate_log_increase_Always(mu_max, duration_hours) ==
    (((mu_max * duration_hours) \div HourScale) * MuScale) \div LN10

\* calculate_log_increase: mu * t for mu <= 0, mu * t / ln(10) otherwise.
calculate_log_increase(mu_max, duration_hours) ==
    IF mu_max <= 0
    THEN (mu_max * duration_hours) \div HourScale
    ELSE (((mu_max * duration_hours) \div HourScale) * MuScale) \div LN10

\* Variant: a water activity out of range clears the flag without a
\* warning.
ValidateInputs_SilentAw(m, temperature, ph, aw, factor4_value, clamp_to_range) ==
    LET c == m.constraints
        kind == IF clamp_to_range THEN "clamped" ELSE "outside"
        tBad == ~ is_temperature_valid(c, temperature)
        pBad == ~ is_ph_valid(c, ph)
        aBad == ~ is_aw_valid(c, aw)
    IN  [ temperature |-> IF tBad /\ clamp_to_range
                          THEN clamp_temperature(c, temperature)
                          ELSE temperature,
          ph |-> IF pBad /\ clamp_to_range THEN clamp_ph(c, ph) ELSE ph,
          aw |-> IF aBad /\ clamp_to_range THEN clamp_aw(c, aw) ELSE aw,
          factor4_value |-> factor4_value,
          within_range |-> ~ (tBad \/ pBad \/ aBad),
          warnings |->
              (IF tBad
               THEN <<Warning("temperature", kind, temperature,
                              c.temp_min, c.temp_max)>>
               ELSE <<>>)
              \o (IF pBad
                  THEN <<Warning("ph", kind, ph, c.ph_min, c.ph_max)>>
                  ELSE <<>>) ]

\* The range validation of calculate (lines 102-133): the values used after
\* it, the within_range flag and the warnings, in the order of the checks.
ValidateInputs(m, temperature, ph, aw, factor4_value, clamp_to_range) ==
    LET c == m.constraints
        kind == IF clamp_to_range THEN "clamped" ELSE "outside"
        tBad == ~ is_temperature_valid(c, temperature)
        pBad == ~ is_ph_valid(c, ph)
        aBad == ~ is_aw_valid(c, aw)
        fBad == m.factor4_type # F4_NONE /\ ~ is_factor4_valid(c, factor4_value)
    IN  [ temperature |-> IF tBad /\ clamp_to_range
                          THEN clamp_temperature(c, temperature)
                          ELSE temperature,
          ph |-> IF pBad /\ clamp_to_range THEN clamp_ph(c, ph) ELSE ph,
          aw |-> IF aBad /\ clamp_to_range THEN clamp_aw(c, aw) ELSE aw,
          factor4_value |-> IF fBad /\ clamp_to_range
                            THEN clamp_factor4(c, factor4_value)
                            ELSE factor4_value,
          within_range |-> ~ (tBad \/ pBad \/ aBad \/ fBad),
          warnings |->
              (IF tBad
               THEN <<Warning("temperature", kind, temperature,
                              c.temp_min, c.temp_max)>>
               ELSE <<>>)
              \o (IF pBad
                  THEN <<Warning("ph", kind, ph, c.ph_min, c.ph_max)>>
                  ELSE <<>>)
              \o (IF aBad
                  THEN <<Warning("aw", kind, aw, c.aw_min, c.aw_max)>>
                  ELSE <<>>)
              \o (IF fBad
                  THEN <<Warning("factor4", kind, factor4_value,
                                 c.factor4_min[1], c.factor4_max[1])>>
                  ELSE <<>>) ]

\* calculate: a CalculationResult, or the OverflowError that math.exp
\* raises in _calculate_mu.
calculate(m, temperature, ph, aw, factor4_value, clamp_to_range) ==
    LET v == ValidateInputs(m, temperature, ph, aw, factor4_value,
                            clamp_to_range)
        bw == _calculate_bw(m, v.aw)
        ln_mu == _calculate_ln_mu(m, v.temperature, v.ph, bw, v.factor4_value)
    IN  IF math_exp_raises(ln_mu)
        THEN [raised |-> "OverflowError"]
        ELSE LET mu_max == _calculate_mu(m, ln_mu)
             IN  [ raised |-> "",
                   mu_max |-> mu_max,
                   doubling_time_hours |-> _calculate_doubling_time(m, mu_max),
                   ln_mu |-> ln_mu,
                   temperature |-> v.temperature,
                   ph |-> v.ph,
                   aw |-> v.aw,
                   bw |-> bw,
                   factor4_value |-> v.factor4_value,
                   model_type |-> m.model_type,
                   organism_id |-> m.organism_id,
                   within_range |-> v.within_range,
                   warnings |-> v.warnings ]

(***************************************************************************)
(* CSV records and their parsing (app/engines/combase/models.py)           *)
(* A numeric cell is a token: Num(v) parses to v, Null is a missing cell,  *)
(* "NULL" in any case or blank, Bad is text that float() / int() rejects.  *)
(***************************************************************************)
Num(v) == [k |-> "num", v |-> v]
Null == [k |-> "null", v |-> 0]
Bad == [k |-> "bad", v |-> 0]

\* _parse_float(value, default); float(value) raises ValueError on Bad.
_parse_float(value, default) == IF value.k = "null" THEN default ELSE value.v

\* _parse_optional_float(value)
_parse_optional_float(value) ==
    IF value.k = "null" THEN None ELSE Some(value.v)

\* _parse_coefficients: the semicolon-separated floats as they are; no
\* padding.  A cell with a part that is no float raises ValueError.
_parse_coefficients(coeff_str) == coeff_str.v

\* str.strip() on the organism cells of the model's records.
Strip(s) ==
    CASE s = " lm " -> "lm"
      [] OTHER -> s

\* "if not row.get('ModelID'): continue"
IsBlankRow(row) == row.ModelID.k = "null"

\* The exceptions of _parse_row: int() / float() on bad text, .strip() on
\* a missing organism cell.
_parse_row_raises(row) ==
    \/ row.ModelID.k = "bad"
    \/ \E f \in {"TempMin", "TempMax", "PHMin", "PHMax", "AwMin", "AwMax",
                 "Factor4Min", "Factor4Max"} : row[f].k = "bad"
    \/ row.OrganismID = "<missing>"
    \/ row.Coefficients.k = "bad"

_parse_row(row) ==
    [ model_id |-> row.ModelID.v,
      organism_id |-> Strip(row.OrganismID),
      model_type |-> from_model_id(row.ModelID.v),
      factor4_type |-> Factor4FromString(row.Factor4ID),
      coefficients |-> _parse_coefficients(row.Coefficients),
      constraints |->
        [ temp_min |-> _parse_float(row.TempMin, 0),
          temp_max |-> _parse_float(row.TempMax, 0),
          ph_min |-> _parse_float(row.PHMin, 0),
          ph_max |-> _parse_float(row.PHMax, 0),
          aw_min |-> _parse_float(row.AwMin, 0),
          aw_max |-> _parse_float(row.AwMax, 0),
          factor4_min |-> _parse_optional_float(row.Factor4Min),
          factor4_max |-> _parse_optional_float(row.Factor4Max) ] ]

(***************************************************************************)
(* ComBaseOrganism (app/models/enums.py)                                   *)
(***************************************************************************)
ComBaseOrganism ==
    {"ah", "bc", "bl", "bs", "bt", "cbn", "cbp", "cp", "ec", "lm", "ps",
     "ss", "sf", "sa", "ye"}

\* ComBaseOrganism.from_string on the organism ids of the model's records:
\* lower-cased and stripped, a direct match on the enum value, else a
\* substring match against the common names, else None.
OrganismFromString(value) ==
    CASE value \in {"lm", "LM"} -> Some("lm")
      [] value = "ss" -> Some("ss")
      [] value = "ps" -> Some("ps")
      [] value = "salmonella" -> Some("ss")
      [] OTHER -> None

(***************************************************************************)
(* ComBaseModelRegistry (app/engines/combase/models.py)                    *)
(* _models is a function from composite keys to models; the two indices    *)
(* map every organism / model type to its list (empty when the dict has    *)
(* no entry).                                                              *)
(***************************************************************************)
\* f"{model_id}_{organism_id}_{factor4_type.value}"
MakeKey(model_id, organism_id, factor4_type) ==
    <<model_id, organism_id, factor4_type>>

get_unique_key(m) == MakeKey(m.model_id, m.organism_id, m.factor4_type)

EmptyRegistry ==
    [ models |-> <<>>,
      by_organism |-> [o \in ComBaseOrganism |-> <<>>],
      by_type |-> [t \in ModelType |-> <<>>] ]

\* dict assignment d[k] = v
DictSet(d, k, v) == [x \in DOMAIN d \cup {k} |-> IF x = k THEN v ELSE d[x]]

_register_model(reg, m) ==
    LET organism == OrganismFromString(m.organism_id)
    IN  [ models |-> DictSet(reg.models, get_unique_key(m), m),
          by_organism |->
            IF organism # None
            THEN [reg.by_organism EXCEPT ![organism[1]] = Append(@, m)]
            ELSE reg.by_organism,
          by_type |-> [reg.by_type EXCEPT ![m.model_type] = Append(@, m)] ]

\* Variant: the first record that fails to parse ends the loop.
RECURSIVE LoadRows_Abort(_, _)
LoadRows_Abort(reg, rows) ==
    IF rows = <<>>
    THEN reg
    ELSE LET row == Head(rows)
         IN  IF IsBlankRow(row)
             THEN LoadRows_Abort(reg, Tail(rows))
             ELSE IF _parse_row_raises(row)
                  THEN reg
                  ELSE LoadRows_Abort(_register_model(reg, _parse_row(row)),
                                      Tail(rows))

\* The loop of load_from_csv over the records of the file.
RECURSIVE LoadRows(_, _)
LoadRows(reg, rows) ==
    IF rows = <<>>
    THEN reg
    ELSE LET row == Head(rows)
         IN  IF IsBlankRow(row) \/ _parse_row_raises(row)
             THEN LoadRows(reg, Tail(rows))
             ELSE LoadRows(_register_model(reg, _parse_row(row)), Tail(rows))

ModelIdOf(model_type) ==
    CASE model_type = GROWTH -> 1
      [] model_type = THERMAL_INACTIVATION -> 2
      [] model_type = NON_THERMAL_SURVIVAL -> 3
      [] OTHER -> 1

\* get_model: self._models.get(key)
get_model(ms, organism, model_type, factor4_type) ==
    LET key == MakeKey(ModelIdOf(model_type), organism, factor4_type)
    IN  IF key \in DOMAIN ms THEN Some(ms[key]) ELSE None

(***************************************************************************)
(* The records and files the model loads                                   *)
(***************************************************************************)
Row(id, org, f4, coeffs, tmin, tmax, pmin, pmax, amin, amax, fmin, fmax) ==
    [ ModelID |-> id, OrganismID |-> org, Factor4ID |-> f4,
      Coefficients |-> coeffs,
      TempMin |-> tmin, TempMax |-> tmax, PHMin |-> pmin, PHMax |-> pmax,
      AwMin |-> amin, AwMax |-> amax, Factor4Min |-> fmin, Factor4Max |-> fmax ]

Coeffs(list) == [k |-> "list", v |-> list]
BadCoeffs == [k |-> "bad", v |-> <<>>]

\* Listeria growth, no fourth factor (ten coefficients in use).
RowLmGrowth ==
    Row(Num(1), "lm", "NULL",
        Coeffs(<<-20, 4, 3, -5, 1, -2, 3, -4, -1, 4, 0, 0, 0, 0, 0>>),
        Num(2), Num(4), Num(4), Num(7), Num(90), Num(100), Null, Null)

\* Listeria growth with CO2: all fifteen coefficients in use.
RowLmGrowthCo2 ==
    Row(Num(1), " lm ", "co2",
        Coeffs(<<-20, 4, 3, -5, 1, -2, 3, -4, -1, 4, 2, -1, 1, -3, -1>>),
        Num(2), Num(4), Num(4), Num(7), Num(90), Num(100), Num(0), Num(2))

\* Salmonella thermal inactivation: a short coefficient list, and a water
\* activity range that ends below 1.
RowSsThermal ==
    Row(Num(2), "ss", "",
        Coeffs(<<-60, 8, 2, 1>>),
        Num(2), Num(4), Num(4), Num(7), Num(90), Num(97), Null, Null)

\* Salmonella non-thermal survival: no fourth-factor type, yet fourth-factor
\* bounds and fourth-factor coefficients in the record.
RowSsSurvival ==
    Row(Num(3), "ss", "NULL",
        Coeffs(<<-30, 2, 1, -4, 0, 0, 0, 0, 0, 0, 5, 0, 0, 0, 0>>),
        Num(2), Num(4), Num(4), Num(7), Num(90), Num(100), Num(0), Num(2))

\* Pseudomonas growth whose TempMax cell is NULL: the range is [3, 0].
RowPsGrowth ==
    Row(Num(1), "ps", "NULL",
        Coeffs(<<-10, 12, 1, -5>>),
        Num(3), Null, Num(4), Num(7), Num(90), Num(100), Null, Null)

\* A record whose model-type code is none of 1, 2, 3.
RowLmUnknownType ==
    Row(Num(7), "lm", "NULL",
        Coeffs(<<-10, 1>>),
        Num(2), Num(4), Num(4), Num(7), Num(90), Num(100), Null, Null)

\* A second record with the key of RowLmGrowth and other coefficients.
RowLmGrowthAgain ==
    Row(Num(1), "lm", "null",
        Coeffs(<<-30, 5>>),
        Num(1), Num(5), Num(4), Num(7), Num(90), Num(100), Null, Null)

\* A malformed record (unparseable coefficients) and a blank one.
RowMalformed ==
    Row(Num(1), "ss", "NULL", BadCoeffs,
        Num(2), Num(4), Num(4), Num(7), Num(90), Num(100), Null, Null)

RowBlank ==
    Row(Null, "", "", Coeffs(<<>>),
        Null, Null, Null, Null, Null, Null, Null, Null)

\* An incomplete record: the line ends before the organism cell.
RowIncomplete ==
    Row(Num(1), "<missing>", "", Coeffs(<<>>),
        Null, Null, Null, Null, Null, Null, Null, Null)

\* Salmonella thermal inactivation with a fourth-factor code that is no
\* known factor.
RowSsThermalSorbate ==
    Row(Num(2), "ss", "sorbate",
        Coeffs(<<-50, 6>>),
        Num(2), Num(4), Num(4), Num(7), Num(90), Num(100), Num(0), Num(2))

\* Listeria growth again, the organism id written in capitals.
RowLmGrowthUpper ==
    Row(Num(1), "LM", "NULL",
        Coeffs(<<-25, 3>>),
        Num(2), Num(4), Num(4), Num(7), Num(90), Num(100), Null, Null)

\* The files: a csv_path stands for the records of the file at that path.
CsvCatalogue ==
    <<RowLmGrowth, RowLmGrowthCo2, RowSsThermal, RowSsSurvival, RowPsGrowth>>

CsvFiles ==
    { CsvCatalogue,
      <<RowLmGrowth, RowMalformed, RowSsThermal>>,
      <<RowBlank, RowLmUnknownType>>,
      <<RowSsThermal, RowSsThermalSorbate>>,
      <<RowLmGrowth, RowLmGrowthAgain>>,
      <<RowLmGrowth, RowLmGrowthUpper>>,
      <<RowMalformed, RowBlank, RowIncomplete>> }

(***************************************************************************)
(* Payloads (app/models/execution/base.py, combase.py)                     *)
(***************************************************************************)
MaxSteps == 2
MaxLoads == 2
MaxInstances == 3

Step(order, temp, minutes) ==
    [step_order |-> order, temperature_celsius |-> temp,
     duration_minutes |-> minutes]

\* The profiles that pass TimeTemperatureProfile.validate_steps: steps
\* numbered 1..n, the total equal to the sum, the flag set for n > 1.
RECURSIVE SumDurations(_)
SumDurations(steps) ==
    IF steps = <<>>
    THEN 0
    ELSE Head(steps).duration_minutes + SumDurations(Tail(steps))

Profile(steps) ==
    [is_multi_step |-> Len(steps) > 1, steps |-> steps,
     total_duration_minutes |-> SumDurations(steps)]

StepInputs(temps, minutes) == temps \X minutes

ProfilesOf(temps, minutes, maxLen) ==
    LET choices == UNION {[1..n -> StepInputs(temps, minutes)] : n \in 1..maxLen}
    IN  { Profile([i \in 1..Len(c) |-> Step(i, c[i][1], c[i][2])]) : c \in choices }

Selection(organism, model_type, factor4_type) ==
    [organism |-> organism, model_type |-> model_type,
     factor4_type |-> factor4_type]

\* ComBaseParameters; validate_factor4 requires a value for a type that is
\* not NONE.
Parameters(ph, aw, f4type, f4value) ==
    [ph |-> ph, water_activity |-> aw, factor4_type |-> f4type,
     factor4_value |-> f4value]

Payload(sel, par, prof) ==
    [model_selection |-> sel, parameters |-> par,
     time_temperature_profile |-> prof]

(***************************************************************************)
(* ComBaseEngine (app/engines/combase/engine.py)                           *)
(***************************************************************************)
Registry == [models |-> models, by_organism |-> by_organism, by_type |-> by_type]

\* is_available: self._loaded and len(self._registry) > 0
is_available == loaded /\ Cardinality(DOMAIN models) > 0

\* Variant: healthy as soon as a source path is recorded.
health_check_healthy_PathSet == model_path # None

\* health_check()["healthy"]
health_check_healthy == loaded

\* "payload.parameters.factor4_value or 0.0"
Factor4OrZero(value) == IF value = None THEN 0 ELSE value[1]

\* "duration_hours = step.duration_minutes / 60.0"
DurationHours(duration_minutes) == (duration_minutes * HourScale) \div 60

\* Variant: the steps are calculated with clamp_to_range=True.
StepCalcs_Clamped(m, payload) ==
    LET steps == payload.time_temperature_profile.steps
    IN  [ i \in 1..Len(steps) |->
            calculate(m, steps[i].temperature_celsius,
                      payload.parameters.ph,
                      payload.parameters.water_activity,
                      Factor4OrZero(payload.parameters.factor4_value),
                      TRUE) ]

\* The calculation of every step of the loop, in step order.
StepCalcs(m, payload) ==
    LET steps == payload.time_temperature_profile.steps
    IN  [ i \in 1..Len(steps) |->
            calculate(m, steps[i].temperature_celsius,
                      payload.parameters.ph,
                      payload.parameters.water_activity,
                      Factor4OrZero(payload.parameters.factor4_value),
                      FALSE) ]

\* The GrowthPrediction appended for one step.
StepPrediction(step, calc_result) ==
    [ step_order |-> step.step_order,
      duration_minutes |-> step.duration_minutes,
      temperature_celsius |-> step.temperature_celsius,
      mu_max |-> calc_result.mu_max,
      log_increase |->
        calculate_log_increase(calc_result.mu_max,
                               DurationHours(step.duration_minutes)) ]

StepPredictions(steps, calcs) ==
    [i \in 1..Len(steps) |-> StepPrediction(steps[i], calcs[i])]

\* Variant: the total is assigned, not accumulated.
TotalLogIncrease_Assigned(preds) ==
    IF preds = <<>> THEN 0 ELSE preds[Len(preds)].log_increase

\* "total_log_increase += log_increase" over the steps, from 0.0.
RECURSIVE TotalLogIncrease(_)
TotalLogIncrease(preds) ==
    IF preds = <<>>
    THEN 0
    ELSE TotalLogIncrease(SubSeq(preds, 1, Len(preds) - 1))
         + preds[Len(preds)].log_increase

\* Variant: a warning already collected is not added again.
RECURSIVE CollectWarnings_Dedup(_)
CollectWarnings_Dedup(calcs) ==
    IF calcs = <<>>
    THEN <<>>
    ELSE LET before == CollectWarnings_Dedup(SubSeq(calcs, 1, Len(calcs) - 1))
             seen == {before[i] : i \in 1..Len(before)}
         IN  before \o SelectSeq(calcs[Len(calcs)].warnings,
                                 LAMBDA w : w \notin seen)

\* "warnings.extend(calc_result.warnings)" over the steps.
RECURSIVE CollectWarnings(_)
CollectWarnings(calcs) ==
    IF calcs = <<>>
    THEN <<>>
    ELSE Head(calcs).warnings \o CollectWarnings(Tail(calcs))

\* Variant: the summary is taken from the last step.
FirstCalcResult_Last(calcs) == calcs[Len(calcs)]

\* "if first_calc_result is None: first_calc_result = calc_result"
FirstCalcResult(calcs) == calcs[1]

\* Variant: a selection that is not found falls back to the organism's
\* growth model without fourth factor.
SelectModel_Default(ms, sel) ==
    IF get_model(ms, sel.organism, sel.model_type, sel.factor4_type) # None
    THEN get_model(ms, sel.organism, sel.model_type, sel.factor4_type)
    ELSE get_model(ms, sel.organism, GROWTH, F4_NONE)

\* The model of the selection that execute runs.
SelectModel(ms, sel) ==
    get_model(ms, sel.organism, sel.model_type, sel.factor4_type)

ModelResult(m, payload, first) ==
    [ mu_max |-> first.mu_max,
      doubling_time_hours |-> first.doubling_time_hours,
      model_type |-> m.model_type,
      organism |-> payload.model_selection.organism,
      temperature_used |-> first.temperature,
      ph_used |-> first.ph,
      aw_used |-> first.aw,
      factor4_type_used |-> payload.parameters.factor4_type,
      factor4_value_used |-> payload.parameters.factor4_value ]

\* What execute(payload) does on the engine as it is: the exception it
\* raises, or the ComBaseExecutionResult it returns.
Execute(payload) ==
    IF ~ is_available
    THEN [raised |-> "RuntimeError", message |-> <<"ComBase engine not loaded">>]
    ELSE
    LET sel == payload.model_selection
        found == SelectModel(models, sel)
    IN  IF found = None
        THEN [ raised |-> "ValueError",
               message |-> <<"Model not found", sel.organism, sel.model_type,
                             sel.factor4_type>> ]
        ELSE
        LET m == found[1]
            steps == payload.time_temperature_profile.steps
            calcs == StepCalcs(m, payload)
        IN  IF \E i \in 1..Len(steps) : calcs[i].raised # ""
            THEN [raised |-> "OverflowError", message |-> <<"math range error">>]
            ELSE
            LET preds == StepPredictions(steps, calcs)
            IN  [ raised |-> "",
                  result |->
                    [ model_result |-> ModelResult(m, payload, FirstCalcResult(calcs)),
                      step_predictions |-> preds,
                      total_log_increase |-> TotalLogIncrease(preds),
                      warnings |-> CollectWarnings(calcs) ] ]

(***************************************************************************)
(* State and operations                                                    *)
(* loads counts the load_models calls; last records the latest call, its   *)
(* arguments and what it returned or raised.  loading is None, or the      *)
(* position of a load_models call that another thread is running: its      *)
(* file, the records not yet read and the registry as it was at the call.  *)
(* _engine is the module-level singleton, None or the identity of the      *)
(* engine it refers to; instances counts the engines get_combase_engine    *)
(* has constructed, the n-th one having identity n.  When the singleton    *)
(* is in use the engine variables are those of the engine constructed      *)
(* last.                                                                   *)
(***************************************************************************)
RegisteredModels == {models[k] : k \in DOMAIN models}

\* No call is in progress and no result is pending.
Idle == [op |-> "idle"]

Init ==
    /\ models = EmptyRegistry.models
    /\ by_organism = EmptyRegistry.by_organism
    /\ by_type = EmptyRegistry.by_type
    /\ loaded = FALSE
    /\ model_path = None
    /\ loads = 0
    /\ last = Idle
    /\ loading = None
    /\ _engine = None
    /\ instances = 0

\* ComBaseEngine.load_models(csv_path), with ComBaseModelRegistry.load_from_csv.
load_models(csv_path) ==
    /\ last = Idle
    /\ loading = None
    /\ loads < MaxLoads
    /\ LET reg == LoadRows(Registry, csv_path)
           count == Cardinality(DOMAIN reg.models)
       IN  /\ models' = reg.models
           /\ by_organism' = reg.by_organism
           /\ by_type' = reg.by_type
           /\ loaded' = (count > 0)
           /\ model_path' = Some(csv_path)
           /\ last' = [op |-> "load_models", csv_path |-> csv_path,
                       returned |-> count]
    /\ loads' = loads + 1
    /\ UNCHANGED <<loading, _engine, instances>>

\* Variant: the coefficient list of the model that is run is padded in
\* place, in the stored definition.
execute_PadsStored(payload) ==
    /\ last = Idle
    /\ last' = [op |-> "execute", payload |-> payload, out |-> Execute(payload)]
    /\ models' =
         LET sel == payload.model_selection
             key == MakeKey(ModelIdOf(sel.model_type), sel.organism,
                            sel.factor4_type)
         IN  IF is_available /\ key \in DOMAIN models
             THEN [models EXCEPT ![key].coefficients = Pad15(@)]
             ELSE models
    /\ UNCHANGED <<by_organism, by_type, loaded, model_path, loads,
                   loading, _engine, instances>>

\* ComBaseEngine.execute(payload)
execute(payload) ==
    /\ last = Idle
    /\ last' = [op |-> "execute", payload |-> payload, out |-> Execute(payload)]
    /\ UNCHANGED <<models, by_organism, by_type, loaded, model_path, loads,
                   loading, _engine, instances>>

\* The property ComBaseEngine.is_available, read by a caller.
is_available_call ==
    /\ last = Idle
    /\ last' = [op |-> "is_available", returned |-> is_available]
    /\ UNCHANGED <<models, by_organism, by_type, loaded, model_path, loads,
                   loading, _engine, instances>>

\* ComBaseEngine.health_check(): the healthy flag, and for a loaded engine
\* the model count of the message and the source path.
health_check_call ==
    /\ last = Idle
    /\ last' = [ op |-> "health_check",
                 returned |->
                   IF ~ loaded
                   THEN [healthy |-> FALSE]
                   ELSE [healthy |-> TRUE,
                         model_count |-> Cardinality(DOMAIN models),
                         model_path |-> model_path] ]
    /\ UNCHANGED <<models, by_organism, by_type, loaded, model_path, loads,
                   loading, _engine, instances>>

\* ComBaseModelRegistry.get_model(organism, model_type, factor4_type)
get_model_call(organism, model_type, factor4_type) ==
    /\ last = Idle
    /\ last' = [ op |-> "get_model",
                 organism |-> organism, model_type |-> model_type,
                 factor4_type |-> factor4_type,
                 returned |-> get_model(models, organism, model_type,
                                        factor4_type) ]
    /\ UNCHANGED <<models, by_organism, by_type, loaded, model_path, loads,
                   loading, _engine, instances>>

\* ComBaseCalculator(model).calculate(...) on a model of the registry.
calculate_call(m, temperature, ph, aw, factor4_value, clamp_to_range) ==
    /\ last = Idle
    /\ last' = [ op |-> "calculate", model |-> m,
                 temperature |-> temperature, ph |-> ph, aw |-> aw,
                 factor4_value |-> factor4_value,
                 clamp_to_range |-> clamp_to_range,
                 out |-> calculate(m, temperature, ph, aw, factor4_value,
                                   clamp_to_range) ]
    /\ UNCHANGED <<models, by_organism, by_type, loaded, model_path, loads,
                   loading, _engine, instances>>

\* ComBaseCalculator.calculate_log_increase(mu_max, duration_hours)
calculate_log_increase_call(mu_max, duration_hours) ==
    /\ last = Idle
    /\ last' = [ op |-> "calculate_log_increase", mu_max |-> mu_max,
                 duration_hours |-> duration_hours,
                 returned |-> calculate_log_increase(mu_max, duration_hours) ]
    /\ UNCHANGED <<models, by_organism, by_type, loaded, model_path, loads,
                   loading, _engine, instances>>

\* ComBaseModelRegistry.list_all_models(): the values of the primary map.
list_all_models_call ==
    /\ last = Idle
    /\ last' = [op |-> "list_all_models", returned |-> RegisteredModels]
    /\ UNCHANGED <<models, by_organism, by_type, loaded, model_path, loads,
                   loading, _engine, instances>>

\* load_models run by a thread of its own, one record of the loop of
\* load_from_csv at a time; the calls of other threads run in between.
\* The call opens the file:
load_begin(csv_path) ==
    /\ loading = None
    /\ loads < MaxLoads
    /\ loading' = Some([csv_path |-> csv_path, rest |-> csv_path,
                        before |-> Registry])
    /\ UNCHANGED <<models, by_organism, by_type, loaded, model_path, loads,
                   last, _engine, instances>>

\* one iteration of "for row in reader": the record is skipped or parsed
\* and registered in the registry that the readers use;
load_row ==
    /\ loading # None
    /\ loading[1].rest # <<>>
    /\ LET reg == LoadRows(Registry, <<Head(loading[1].rest)>>)
       IN  /\ models' = reg.models
           /\ by_organism' = reg.by_organism
           /\ by_type' = reg.by_type
    /\ loading' = Some([loading[1] EXCEPT !.rest = Tail(@)])
    /\ UNCHANGED <<loaded, model_path, loads, last, _engine, instances>>

\* the loop has ended: load_from_csv returns and load_models sets the flag
\* and the path.
load_end ==
    /\ loading # None
    /\ loading[1].rest = <<>>
    /\ last = Idle
    /\ LET count == Cardinality(DOMAIN models)
       IN  /\ loaded' = (count > 0)
           /\ model_path' = Some(loading[1].csv_path)
           /\ last' = [op |-> "load_models",
                       csv_path |-> loading[1].csv_path, returned |-> count]
    /\ loads' = loads + 1
    /\ loading' = None
    /\ UNCHANGED <<models, by_organism, by_type, _engine, instances>>

\* Variant: every call constructs an engine.
get_combase_engine_Always ==
    /\ last = Idle
    /\ instances < MaxInstances
    /\ instances' = instances + 1
    /\ _engine' = Some(instances + 1)
    /\ models' = EmptyRegistry.models
    /\ by_organism' = EmptyRegistry.by_organism
    /\ by_type' = EmptyRegistry.by_type
    /\ loaded' = FALSE
    /\ model_path' = None
    /\ last' = [op |-> "get_combase_engine", returned |-> instances + 1]
    /\ UNCHANGED <<loads, loading>>

\* get_combase_engine(): the singleton, constructed (ComBaseEngine.__init__)
\* when there is none.
get_combase_engine ==
    /\ last = Idle
    /\ IF _engine = None
       THEN /\ instances < MaxInstances
            /\ instances' = instances + 1
            /\ _engine' = Some(instances + 1)
            /\ models' = EmptyRegistry.models
            /\ by_organism' = EmptyRegistry.by_organism
            /\ by_type' = EmptyRegistry.by_type
            /\ loaded' = FALSE
            /\ model_path' = None
            /\ last' = [op |-> "get_combase_engine", returned |-> instances + 1]
       ELSE /\ last' = [op |-> "get_combase_engine", returned |-> _engine[1]]
            /\ UNCHANGED <<models, by_organism, by_type, loaded, model_path,
                           _engine, instances>>
    /\ UNCHANGED <<loads, loading>>

\* reset_combase_engine(): the global is set to None.
reset_combase_engine ==
    /\ last = Idle
    /\ _engine' = None
    /\ last' = [op |-> "reset_combase_engine"]
    /\ UNCHANGED <<models, by_organism, by_type, loaded, model_path, loads,
                   loading, instances>>

\* The caller takes what the call returned or raised; the next call follows.
Return ==
    /\ last # Idle
    /\ last' = Idle
    /\ UNCHANGED <<models, by_organism, by_type, loaded, model_path, loads,
                   loading, _engine, instances>>

(***************************************************************************)
(* Specifications                                                          *)
(***************************************************************************)
\* The engine with any of the files loaded and reloaded.
SelOrganisms == {"lm", "ss", "ps"}
SelFactors == {F4_NONE, F4_CO2}

LifePayloads ==
    { Payload(Selection(o, t, f), Parameters(5, 99, F4_NONE, None),
              Profile(<<Step(1, 3, 60)>>)) :
        o \in SelOrganisms, t \in ModelType, f \in SelFactors }

Next ==
    \/ \E csv \in CsvFiles : load_models(csv)
    \/ \E p \in LifePayloads : execute(p)
    \/ \E o \in SelOrganisms, t \in ModelType, f \in SelFactors :
          get_model_call(o, t, f)
    \/ is_available_call
    \/ health_check_call
    \/ Return

Spec == Init /\ [][Next]_vars

\* Executions of multi-step profiles on the engine loaded from the catalogue.
ExecTemps == {1, 3, 5}
ExecMinutes == {30, 240}
ExecSelections ==
    { Selection("lm", GROWTH, F4_NONE), Selection("lm", GROWTH, F4_CO2),
      Selection("ss", THERMAL_INACTIVATION, F4_NONE),
      Selection("ss", NON_THERMAL_SURVIVAL, F4_NONE),
      Selection("ps", GROWTH, F4_NONE) }
ExecParameters ==
    { Parameters(ph, aw, ft[1], ft[2]) :
        ph \in {5, 8}, aw \in {96, 99},
        ft \in {<<F4_NONE, None>>, <<F4_CO2, Some(1)>>, <<F4_CO2, Some(3)>>} }

ExecPayloads ==
    { Payload(sel, par, prof) :
        sel \in ExecSelections, par \in ExecParameters,
        prof \in ProfilesOf(ExecTemps, ExecMinutes, MaxSteps) }

NextExec ==
    \/ (~ loaded /\ load_models(CsvCatalogue))
    \/ \E p \in ExecPayloads : execute(p)
    \/ Return

SpecExec == Init /\ [][NextExec]_vars

\* Calculations on the models of the catalogue, with and without clamping.
CalcTemps == {1, 3, 5}
CalcPhs == {3, 5, 8}
CalcAws == {85, 96, 99, 100}
CalcFactors == {0, 1, 3}
\* Rates (1/MuScale per hour) down to the smallest one that is not zero, and
\* positive durations (1/HourScale hours).
LogRates == {-1500, -40, -1, 0, 1, 40, 700, 2303}
LogHours == {25, 50, 100, 400}

NextCalc ==
    \/ (~ loaded /\ load_models(CsvCatalogue))
    \/ \E m \in RegisteredModels, t \in CalcTemps, ph \in CalcPhs,
          aw \in CalcAws, f \in CalcFactors, clamp \in BOOLEAN :
          calculate_call(m, t, ph, aw, f, clamp)
    \/ \E rate \in LogRates, hours \in LogHours :
          calculate_log_increase_call(rate, hours)
    \/ Return

SpecCalc == Init /\ [][NextCalc]_vars

\* A reload that runs while other threads look models up and list them.
ReloadFiles ==
    { <<RowLmGrowth, RowSsThermal>>,
      <<RowSsThermal, RowLmGrowthCo2, RowMalformed>>,
      <<RowLmGrowth, RowLmGrowthAgain>> }

NextReload ==
    \/ \E csv \in ReloadFiles : load_begin(csv)
    \/ load_row
    \/ load_end
    \/ \E o \in {"lm", "ss"}, t \in {GROWTH, THERMAL_INACTIVATION},
          f \in SelFactors : get_model_call(o, t, f)
    \/ list_all_models_call
    \/ Return

SpecReload == Init /\ [][NextReload]_vars

\* The singleton: engines obtained, loaded through the singleton and reset.
NextSingleton ==
    \/ get_combase_engine
    \/ reset_combase_engine
    \/ \E csv \in CsvFiles : (_engine # None /\ load_models(csv))
    \/ Return

SpecSingleton == Init /\ [][NextSingleton]_vars

(***************************************************************************)
(* Construction of TimeTemperatureProfile (app/models/execution/base.py)   *)
(* Here the durations are in 1/MinuteScale minutes, so that the 0.01       *)
(* tolerance of the total is one unit.                                     *)
(***************************************************************************)
MinuteScale == 10 * 10

\* The field constraints of TimeTemperatureStep: duration gt 0, order ge 1.
StepFieldsInvalid(step) ==
    step.duration_minutes <= 0 \/ step.step_order < 1

\* The field constraints of TimeTemperatureProfile: steps min_length 1 and
\* every step valid, total_duration_minutes gt 0.
ProfileFieldsInvalid(steps, total) ==
    \/ Len(steps) < 1
    \/ \E i \in 1..Len(steps) : StepFieldsInvalid(steps[i])
    \/ total <= 0

IsSorted(orders) ==
    \A i \in 1..(Len(orders) - 1) : orders[i] <= orders[i + 1]

\* Variant: the orders only have to be sorted.
validate_steps_raises_SortedOnly(is_multi_step, steps, total) ==
    LET orders == [i \in 1..Len(steps) |-> steps[i].step_order]
        calculated_total == SumDurations(steps)
        diff == calculated_total - total
    IN  \/ ~ IsSorted(orders)
        \/ (IF diff < 0 THEN -diff ELSE diff) > MinuteScale \div 100
        \/ (Len(steps) > 1 /\ ~ is_multi_step)

\* validate_steps: the ValueError cases of the model validator.
validate_steps_raises(is_multi_step, steps, total) ==
    LET orders == [i \in 1..Len(steps) |-> steps[i].step_order]
        calculated_total == SumDurations(steps)
        diff == calculated_total - total
    IN  \/ ~ IsSorted(orders)
        \/ orders # [i \in 1..Len(orders) |-> i]
        \/ (IF diff < 0 THEN -diff ELSE diff) > MinuteScale \div 100
        \/ (Len(steps) > 1 /\ ~ is_multi_step)

\* TimeTemperatureProfile(is_multi_step=..., steps=..., total_duration_minutes=...):
\* the field constraints first, then the validator.
TimeTemperatureProfile(is_multi_step, steps, total) ==
    IF ProfileFieldsInvalid(steps, total)
    THEN [raised |-> "ValidationError"]
    ELSE IF validate_steps_raises(is_multi_step, steps, total)
         THEN [raised |-> "ValidationError"]
         ELSE [ raised |-> "",
                profile |-> [is_multi_step |-> is_multi_step, steps |-> steps,
                             total_duration_minutes |-> total] ]

construct_profile(is_multi_step, steps, total) ==
    /\ last = Idle
    /\ last' = [ op |-> "TimeTemperatureProfile",
                 is_multi_step |-> is_multi_step, steps |-> steps,
                 total_duration_minutes |-> total,
                 out |-> TimeTemperatureProfile(is_multi_step, steps, total) ]
    /\ UNCHANGED <<models, by_organism, by_type, loaded, model_path, loads,
                   loading, _engine, instances>>

\* The field constraints of ComBaseParameters: ph ge 0 le 14, water_activity
\* ge 0 le 1 (in 1/AwScale).
ParameterFieldsInvalid(ph, aw) ==
    ph < 0 \/ ph > 14 \/ aw < 0 \/ aw > AwScale

\* Variant: the validator accepts a type without a value.
validate_factor4_raises_Never(f4type, f4value) == FALSE

\* validate_factor4: a type other than NONE needs a value.
validate_factor4_raises(f4type, f4value) ==
    f4type # F4_NONE /\ f4value = None

\* ComBaseParameters(ph=..., water_activity=..., factor4_type=..., factor4_value=...)
ComBaseParameters(ph, aw, f4type, f4value) ==
    IF ParameterFieldsInvalid(ph, aw)
    THEN [raised |-> "ValidationError"]
    ELSE IF validate_factor4_raises(f4type, f4value)
         THEN [raised |-> "ValidationError"]
         ELSE [raised |-> "", parameters |-> Parameters(ph, aw, f4type, f4value)]

construct_parameters(ph, aw, f4type, f4value) ==
    /\ last = Idle
    /\ last' = [ op |-> "ComBaseParameters", ph |-> ph, water_activity |-> aw,
                 factor4_type |-> f4type, factor4_value |-> f4value,
                 out |-> ComBaseParameters(ph, aw, f4type, f4value) ]
    /\ UNCHANGED <<models, by_organism, by_type, loaded, model_path, loads,
                   loading, _engine, instances>>

RawPhs == {-1, 0, 7, 14, 15}
RawAws == {-1, 0, 96, 100, 101}
RawFactorValues == {None, Some(0), Some(1)}

\* Step lists of up to MaxSteps steps, valid and invalid, and totals at and
\* around the sum of the durations.
RawOrders == 0..3
RawDurations == {0, 30 * MinuteScale}
RawStepLists ==
    UNION { [1..n -> { Step(o, 3, d) : o \in RawOrders, d \in RawDurations }] :
              n \in 0..MaxSteps }
TotalOffsets == {-2, -1, 0, 1, 2}

NextProfile ==
    \/ \E multi \in BOOLEAN, steps \in RawStepLists, off \in TotalOffsets :
          construct_profile(multi, steps, SumDurations(steps) + off)
    \/ \E ph \in RawPhs, aw \in RawAws, ft \in {F4_NONE, F4_CO2, F4_NITRITE},
          fv \in RawFactorValues : construct_parameters(ph, aw, ft, fv)
    \/ Return

SpecProfile == Init /\ [][NextProfile]_vars

(***************************************************************************)
(* Properties                                                              *)
(***************************************************************************)
ExecReturned == last.op = "execute" /\ last.out.raised = ""

\* The model that the latest execute ran (defined when ExecReturned).
RanModel ==
    LET sel == last.payload.model_selection
    IN  models[MakeKey(ModelIdOf(sel.model_type), sel.organism,
                       sel.factor4_type)]

\* C1: execute on a loaded engine, for a selection whose key the registry
\* does not hold, raises the 'Model not found' error naming the requested
\* organism, model type and fourth factor, and returns no result.
C1_ModelNotFound ==
    (/\ last.op = "execute"
     /\ is_available
     /\ LET sel == last.payload.model_selection
        IN  MakeKey(ModelIdOf(sel.model_type), sel.organism, sel.factor4_type)
                \notin DOMAIN models)
    => LET sel == last.payload.model_selection
       IN  last.out = [ raised |-> "ValueError",
                        message |-> <<"Model not found", sel.organism,
                                      sel.model_type, sel.factor4_type>> ]

C1_Witness ==
    /\ last.op = "execute"
    /\ is_available
    /\ last.out.raised = "ValueError"
    /\ \E k \in DOMAIN models :
          /\ k[2] = last.payload.model_selection.organism
          /\ k[3] = last.payload.model_selection.factor4_type

\* C2: get_model returns a definition whose organism code, model type and
\* fourth-factor type are the requested ones, and returns None exactly when
\* no loaded definition has that (model type, organism, fourth factor).
C2_ExactMatch ==
    last.op = "get_model" =>
        /\ last.returned # None =>
              /\ last.returned[1].organism_id = last.organism
              /\ last.returned[1].model_type = last.model_type
              /\ last.returned[1].factor4_type = last.factor4_type
        /\ last.returned = None <=>
              ~ \E m \in RegisteredModels :
                    /\ m.model_type = last.model_type
                    /\ m.organism_id = last.organism
                    /\ m.factor4_type = last.factor4_type

\* The sum of the log_increase fields of a list of predictions, first to last.
RECURSIVE SumLogIncrease(_)
SumLogIncrease(preds) ==
    IF preds = <<>>
    THEN 0
    ELSE Head(preds).log_increase + SumLogIncrease(Tail(preds))

\* C3: the total_log_increase of a result is the sum of the log_increase of
\* its step predictions, and each of these is calculate_log_increase of the
\* step's rate and of its duration in hours (minutes / 60).
C3_TotalIsSum ==
    ExecReturned =>
        LET r == last.out.result
            steps == last.payload.time_temperature_profile.steps
        IN  /\ r.total_log_increase = SumLogIncrease(r.step_predictions)
            /\ \A i \in 1..Len(steps) :
                  r.step_predictions[i].log_increase
                    = calculate_log_increase(
                          r.step_predictions[i].mu_max,
                          (steps[i].duration_minutes * HourScale) \div 60)

C3_Witness ==
    /\ ExecReturned
    /\ Len(last.out.result.step_predictions) = 2
    /\ last.out.result.step_predictions[1].log_increase > 0
    /\ last.out.result.step_predictions[2].log_increase > 0
    /\ last.out.result.step_predictions[1].log_increase
         # last.out.result.step_predictions[2].log_increase

\* C4: one step prediction per profile step, in profile order, carrying the
\* step's order, duration and temperature; its rate is the one calculate
\* returns for the step's temperature and the request-level pH, water
\* activity and fourth factor without clamping.
C4_OnePredictionPerStep ==
    ExecReturned =>
        LET r == last.out.result
            par == last.payload.parameters
            steps == last.payload.time_temperature_profile.steps
        IN  /\ Len(r.step_predictions) = Len(steps)
            /\ \A i \in 1..Len(steps) :
                  /\ r.step_predictions[i].step_order = steps[i].step_order
                  /\ r.step_predictions[i].duration_minutes
                       = steps[i].duration_minutes
                  /\ r.step_predictions[i].temperature_celsius
                       = steps[i].temperature_celsius
                  /\ r.step_predictions[i].mu_max
                       = calculate(RanModel, steps[i].temperature_celsius,
                                   par.ph, par.water_activity,
                                   IF par.factor4_value = None
                                   THEN 0 ELSE par.factor4_value[1],
                                   FALSE).mu_max

\* A two-step execution whose second step is hotter than the model allows
\* and whose rate is not the rate at the clamped temperature.
C4_Witness ==
    /\ ExecReturned
    /\ Len(last.out.result.step_predictions) = 2
    /\ LET s == last.payload.time_temperature_profile.steps[2]
           c == RanModel.constraints
           par == last.payload.parameters
       IN  /\ c.temp_min <= c.temp_max
           /\ s.temperature_celsius > c.temp_max
           /\ last.out.result.step_predictions[2].temperature_celsius
                = s.temperature_celsius
           /\ last.out.result.step_predictions[2].mu_max
                # calculate(RanModel, c.temp_max, par.ph, par.water_activity,
                            Factor4OrZero(par.factor4_value), TRUE).mu_max

\* The calculation of step i of the latest execute, made outside the engine.
StepCalcOf(i) ==
    LET par == last.payload.parameters
    IN  calculate(RanModel,
                  last.payload.time_temperature_profile.steps[i].temperature_celsius,
                  par.ph, par.water_activity,
                  IF par.factor4_value = None THEN 0 ELSE par.factor4_value[1],
                  FALSE)

\* The warnings of steps 1..n, one step after the other.
RECURSIVE WarningsUpTo(_)
WarningsUpTo(n) ==
    IF n = 0 THEN <<>> ELSE WarningsUpTo(n - 1) \o StepCalcOf(n).warnings

CountDim(ws, dim) == Cardinality({i \in 1..Len(ws) : ws[i].dim = dim})

C6_SummaryIsFirstStep ==
    ExecReturned =>
        LET mr == last.out.result.model_result
            first == StepCalcOf(1)
        IN  /\ mr.mu_max = first.mu_max
            /\ mr.doubling_time_hours = first.doubling_time_hours
            /\ mr.temperature_used
                 = last.payload.time_temperature_profile.steps[1].temperature_celsius
            /\ mr.temperature_used = first.temperature
            /\ mr.ph_used = first.ph
            /\ mr.aw_used = first.aw

\* Two steps at different temperatures and rates: the summary carries the
\* first step's.
C6_Witness ==
    /\ ExecReturned
    /\ Len(last.payload.time_temperature_profile.steps) = 2
    /\ last.out.result.step_predictions[1].mu_max
         # last.out.result.step_predictions[2].mu_max
    /\ last.out.result.model_result.mu_max
         = last.out.result.step_predictions[1].mu_max
    /\ last.out.result.model_result.doubling_time_hours # None

CalcReturned == last.op = "calculate" /\ last.out.raised = ""

\* The inputs of the latest calculate call that lie outside the bounds of
\* the model's constraints.
TempOut == ~ (last.model.constraints.temp_min <= last.temperature
              /\ last.temperature <= last.model.constraints.temp_max)
PhOut == ~ (last.model.constraints.ph_min <= last.ph
            /\ last.ph <= last.model.constraints.ph_max)
AwOut == ~ (last.model.constraints.aw_min <= last.aw
            /\ last.aw <= last.model.constraints.aw_max)
Factor4Out ==
    /\ last.model.constraints.factor4_min # None
    /\ last.model.constraints.factor4_max # None
    /\ ~ (last.model.constraints.factor4_min[1] <= last.factor4_value
          /\ last.factor4_value <= last.model.constraints.factor4_max[1])

\* The same call with the other clamping mode.
OtherClampMode ==
    calculate(last.model, last.temperature, last.ph, last.aw,
              last.factor4_value, ~ last.clamp_to_range)

Reported(given, used, out, lo, hi, dim) ==
    /\ out /\ last.clamp_to_range
          => (given < lo /\ used = lo) \/ (given > hi /\ used = hi)
    /\ out /\ ~ last.clamp_to_range => used = given
    /\ out => CountDim(last.out.warnings, dim) = 1
    /\ ~ out => used = given /\ CountDim(last.out.warnings, dim) = 0

C8_ClampOrReport ==
    CalcReturned =>
        LET c == last.model.constraints
            f4 == last.model.factor4_type # F4_NONE /\ Factor4Out
        IN  /\ Reported(last.temperature, last.out.temperature, TempOut,
                        c.temp_min, c.temp_max, "temperature")
            /\ Reported(last.ph, last.out.ph, PhOut, c.ph_min, c.ph_max, "ph")
            /\ Reported(last.aw, last.out.aw, AwOut, c.aw_min, c.aw_max, "aw")
            /\ IF f4
               THEN Reported(last.factor4_value, last.out.factor4_value, TRUE,
                             c.factor4_min[1], c.factor4_max[1], "factor4")
               ELSE /\ last.out.factor4_value = last.factor4_value
                    /\ CountDim(last.out.warnings, "factor4") = 0
            /\ last.out.ln_mu
                 = _calculate_ln_mu(last.model, last.out.temperature,
                                    last.out.ph, last.out.bw,
                                    last.out.factor4_value)

\* C9 as stated: the rate is positive for a growth model and non-positive
\* for the other model types; the doubling time is present exactly for a
\* growth model with a positive rate, and is then ln(2) / rate.
DoublingTimeRule ==
    IF last.model.model_type = "growth" /\ last.out.mu_max > 0
    THEN last.out.doubling_time_hours = <<(693 * MuScale) \div last.out.mu_max>>
    ELSE last.out.doubling_time_hours = <<>>

C9_RateSignStrict ==
    CalcReturned =>
        /\ last.model.model_type = "growth" => last.out.mu_max > 0
        /\ last.model.model_type # "growth" => last.out.mu_max <= 0
        /\ DoublingTimeRule

\* C9 (amended): the rate is non-negative for a growth model (zero when
\* the exponential underflows) and non-positive for the other model types;
\* the doubling time is as stated.
C9_RateSign ==
    CalcReturned =>
        /\ last.model.model_type = "growth" => last.out.mu_max >= 0
        /\ last.model.model_type # "growth" => last.out.mu_max <= 0
        /\ DoublingTimeRule

\* A growth rate that underflowed to zero, without a doubling time.
C9_Witness ==
    /\ CalcReturned
    /\ last.model.model_type = "growth"
    /\ last.out.mu_max = 0
    /\ last.out.doubling_time_hours = <<>>
    /\ last.out.within_range = FALSE

\* Coefficient i of the code (b[i]), 0 when the list is shorter.
CoefficientAt(b, i) == IF i + 1 <= Len(b) THEN b[i + 1] ELSE 0

\* C10: ln(rate) is the 15-term polynomial in the values used, coefficient
\* i bound to the same term for every model and missing trailing
\* coefficients counting as 0; bw is the water activity for a thermal
\* inactivation model and sqrt(max(0, 1 - aw)) for the other two types.
C10_Polynomial ==
    CalcReturned =>
        LET b == last.model.coefficients
            T == last.out.temperature
            P == last.out.ph
            bw == last.out.bw
            F == last.out.factor4_value
            S == AwScale
            radicand == IF S - last.out.aw > 0 THEN S - last.out.aw ELSE 0
        IN  /\ IF last.model.model_type = "thermal_inactivation"
               THEN bw = last.out.aw
               ELSE /\ bw >= 0
                    /\ bw * bw <= radicand * S
                    /\ (bw + 1) * (bw + 1) > radicand * S
            /\ last.out.ln_mu
                 =   CoefficientAt(b, 0) * S * S
                   + CoefficientAt(b, 1) * T * S * S
                   + CoefficientAt(b, 2) * P * S * S
                   + CoefficientAt(b, 3) * bw * S
                   + CoefficientAt(b, 4) * T * P * S * S
                   + CoefficientAt(b, 5) * T * bw * S
                   + CoefficientAt(b, 6) * P * bw * S
                   + CoefficientAt(b, 7) * T * T * S * S
                   + CoefficientAt(b, 8) * P * P * S * S
                   + CoefficientAt(b, 9) * bw * bw
                   + CoefficientAt(b, 10) * F * S * S
                   + CoefficientAt(b, 11) * T * F * S * S
                   + CoefficientAt(b, 12) * P * F * S * S
                   + CoefficientAt(b, 13) * bw * F * S
                   + CoefficientAt(b, 14) * F * F * S * S

\* A calculation on the model with fifteen coefficients in use, every
\* variable non-zero, and one on the short thermal model.
C10_Witness ==
    /\ CalcReturned
    /\ Len(last.model.coefficients) = 15
    /\ \A i \in 1..15 : last.model.coefficients[i] # 0
    /\ last.out.temperature > 0 /\ last.out.ph > 0
    /\ last.out.bw > 0 /\ last.out.factor4_value > 0
    /\ last.out.mu_max > 0


\* C11 (as stated): calculate_log_increase returns rate * duration for a
\* rate <= 0 and rate * duration / ln(10) for a rate > 0, and for a positive
\* duration the sign of the result is the sign of the rate.
C11_LogIncreaseSign ==
    last.op = "calculate_log_increase" =>
        LET rate == last.mu_max
            t == last.duration_hours
            product == (rate * t) \div HourScale
        IN  /\ rate <= 0 => last.returned = product
            /\ rate > 0 => last.returned = (product * MuScale) \div LN10
            /\ t > 0 => /\ (rate > 0 <=> last.returned > 0)
                        /\ (rate < 0 <=> last.returned < 0)

\* C11: calculate_log_increase returns rate * duration for a rate <= 0 and
\* rate * duration / ln(10) for a rate > 0; for a positive duration the
\* result never has the sign opposite to the rate's, and it is zero for a
\* zero rate (it is also zero when the product of a rate next to zero and
\* the duration rounds to zero).
C11_LogIncrease ==
    last.op = "calculate_log_increase" =>
        LET rate == last.mu_max
            t == last.duration_hours
            product == (rate * t) \div HourScale
        IN  /\ rate <= 0 => last.returned = product
            /\ rate > 0 => last.returned = (product * MuScale) \div LN10
            /\ t > 0 => /\ (rate > 0 => last.returned >= 0)
                        /\ (rate < 0 => last.returned <= 0)
                        /\ (rate = 0 => last.returned = 0)

\* A negative rate over four hours: the product, not divided by ln(10).
C11_Witness ==
    /\ last.op = "calculate_log_increase"
    /\ last.mu_max = -1500
    /\ last.duration_hours = 400
    /\ last.returned = -6000

\* A record that the load rejects: no model-type identifier, or a field
\* that does not parse.
Rejected(row) == row.ModelID.k # "num" \/ _parse_row_raises(row)

\* The records of a file that are not rejected, in file order.
ValidRecords(rows) == SelectSeq(rows, LAMBDA row : ~ Rejected(row))

\* The registry after registering the models of a list of records.
RECURSIVE RegisterAll(_, _)
RegisterAll(reg, rows) ==
    IF rows = <<>>
    THEN reg
    ELSE RegisterAll(_register_model(reg, _parse_row(Head(rows))), Tail(rows))

\* C12: a load is never aborted by a malformed, incomplete or blank record:
\* the primary map and the two indices after the load are those obtained by
\* registering, in file order, the valid records alone, so a rejected
\* record adds nothing and the valid ones before and after it are there.
C12_SkipsBadRecords ==
    [][ last'.op = "load_models" =>
          LET reg == RegisterAll(Registry, ValidRecords(last'.csv_path))
          IN  /\ models' = reg.models
              /\ by_organism' = reg.by_organism
              /\ by_type' = reg.by_type
              /\ \A i \in 1..Len(last'.csv_path) :
                    ~ Rejected(last'.csv_path[i]) =>
                       get_unique_key(_parse_row(last'.csv_path[i]))
                           \in DOMAIN models' ]_vars

\* The first load, from a file with a malformed record between two valid
\* ones: both are registered and nothing else is.
C12_Witness ==
    /\ last.op = "load_models"
    /\ loads = 1
    /\ last.csv_path = <<RowLmGrowth, RowMalformed, RowSsThermal>>
    /\ DOMAIN models = {MakeKey(1, "lm", F4_NONE), MakeKey(2, "ss", F4_NONE)}
    /\ by_organism["ss"] = <<_parse_row(RowSsThermal)>>
    /\ by_type[GROWTH] = <<_parse_row(RowLmGrowth)>>

\* C13 (as stated): the value returned by a load is the number of valid
\* records of the file of this call, those it parsed and registered.
C13_CountsValidRecords ==
    last.op = "load_models" =>
        last.returned = Len(ValidRecords(last.csv_path))

\* The organism, model type and fourth factor that a valid record denotes.
TripleOf(row) ==
    LET m == _parse_row(row)
    IN  <<m.model_type, OrganismFromString(m.organism_id), m.factor4_type>>

\* C14 (as stated): after a load, for every valid record of the file that
\* no later valid record of the file follows with the same model type,
\* organism and fourth factor, the registry holds exactly one definition
\* of that model type, organism and fourth factor, and get_model returns
\* the definition built from that record.  Only records whose model-type
\* code is 1, 2 or 3 are considered.
C14_LastWriteWins ==
    last.op = "load_models" =>
        LET rows == SelectSeq(ValidRecords(last.csv_path),
                              LAMBDA row : row.ModelID.v \in 1..3)
        IN  \A i \in 1..Len(rows) :
              (/\ TripleOf(rows[i])[2] # None
               /\ \A j \in (i + 1)..Len(rows) :
                     TripleOf(rows[j]) # TripleOf(rows[i]))
              => LET t == TripleOf(rows[i])
                 IN  /\ get_model(models, t[2][1], t[1], t[3])
                          = Some(_parse_row(rows[i]))
                     /\ Cardinality(
                          { m \in RegisteredModels :
                              /\ m.model_type = t[1]
                              /\ OrganismFromString(m.organism_id) = t[2]
                              /\ m.factor4_type = t[3] }) = 1

\* C15: a TimeTemperatureProfile is constructed only if the step list is
\* not empty, every duration is positive, the orders in list order are
\* 1, 2, ..., n, the total differs from the sum of the durations by at most
\* 0.01 and is_multi_step is true when there are several steps; otherwise
\* the construction fails with a validation error.
C15_ProfileValidation ==
    last.op = "TimeTemperatureProfile" =>
        LET steps == last.steps
            n == Len(steps)
            sum == SumDurations(steps)
            total == last.total_duration_minutes
            wellFormed ==
                /\ n >= 1
                /\ \A i \in 1..n : steps[i].duration_minutes > 0
                /\ \A i \in 1..n : steps[i].step_order = i
                /\ sum - total <= MinuteScale \div 100
                /\ total - sum <= MinuteScale \div 100
                /\ (n > 1 => last.is_multi_step)
        IN  /\ ~ wellFormed => last.out = [raised |-> "ValidationError"]
            /\ last.out.raised = "" =>
                  /\ wellFormed
                  /\ last.out.profile.steps = steps

\* A construction that fails for a gap in the orders alone: two steps
\* numbered 1 and 3, positive durations, the exact total, the flag set.
C15_Witness ==
    /\ last.op = "TimeTemperatureProfile"
    /\ Len(last.steps) = 2
    /\ last.steps[1].step_order = 1
    /\ last.steps[2].step_order = 3
    /\ last.steps[1].duration_minutes > 0
    /\ last.steps[2].duration_minutes > 0
    /\ last.total_duration_minutes = SumDurations(last.steps)
    /\ last.is_multi_step
    /\ last.out.raised = "ValidationError"

\* C16 (as stated): on a loaded engine, for a selection whose model is
\* found, execute returns a complete result whatever the step
\* temperatures, pH, water activity and fourth factor: one prediction per
\* step, the total and the warnings.
C16_NeverFatal ==
    (/\ last.op = "execute"
     /\ is_available
     /\ SelectModel(models, last.payload.model_selection) # None)
    => /\ last.out.raised = ""
       /\ Len(last.out.result.step_predictions)
            = Len(last.payload.time_temperature_profile.steps)

\* C17: after any sequence of load_models calls, is_available, the healthy
\* field of health_check and "the registry holds at least one model" agree;
\* they are false on an engine that has loaded nothing; and execute raises
\* the 'not loaded' error exactly when they are false.
C17_AvailabilityAgrees ==
    /\ is_available = health_check_healthy
    /\ is_available = (DOMAIN models # {})
    /\ loads = 0 => ~ is_available
    /\ last.op = "execute" =>
          ((last.out = [raised |-> "RuntimeError",
                        message |-> <<"ComBase engine not loaded">>])
             <=> ~ is_available)

\* execute refused on an engine whose only load found no valid record.
C17_Witness ==
    /\ last.op = "execute"
    /\ loads = 1
    /\ model_path # None
    /\ ~ is_available
    /\ last.out.raised = "RuntimeError"

\* The models of a registry, as list_all_models returns them.
ModelsOf(reg) == {reg.models[k] : k \in DOMAIN reg.models}

\* C18 (as stated): a load rebuilds the registry as a whole: after a load
\* the registry holds exactly the definitions of the file of that load
\* (what a load of that file into an empty registry gives), so a
\* definition of an earlier file alone is neither returned by get_model
\* nor listed, and len() counts the models of the last file alone.
C18_ReloadReplaces ==
    last.op = "load_models" =>
        LET fresh == RegisterAll(EmptyRegistry, ValidRecords(last.csv_path))
        IN  /\ models = fresh.models
            /\ RegisteredModels = ModelsOf(fresh)
            /\ Cardinality(DOMAIN models) = Cardinality(DOMAIN fresh.models)

\* C19 (as stated): a lookup or a listing made while a reload is running
\* is answered entirely from the registry as it was before the reload or
\* entirely from the registry as it is when the reload has completed.
C19_NoPartialRegistry ==
    (loading # None /\ loads >= 1) =>
        LET before == loading[1].before
            after == LoadRows(before, loading[1].csv_path)
        IN  /\ last.op = "get_model" =>
                  \/ last.returned = get_model(before.models, last.organism,
                                               last.model_type,
                                               last.factor4_type)
                  \/ last.returned = get_model(after.models, last.organism,
                                               last.model_type,
                                               last.factor4_type)
            /\ last.op = "list_all_models" =>
                  \/ last.returned = ModelsOf(before)
                  \/ last.returned = ModelsOf(after)

\* C20 (as stated): every registered definition has min <= max for
\* temperature, pH and water activity, its fourth-factor bounds are both
\* present or both absent, and when present they satisfy min <= max.
C20_OrderedBounds ==
    \A m \in RegisteredModels :
        LET c == m.constraints
        IN  /\ c.temp_min <= c.temp_max
            /\ c.ph_min <= c.ph_max
            /\ c.aw_min <= c.aw_max
            /\ (c.factor4_min = None) <=> (c.factor4_max = None)
            /\ (c.factor4_min # None /\ c.factor4_max # None)
                  => c.factor4_min[1] <= c.factor4_max[1]

\* C21 (as stated): every definition that a load registers holds exactly
\* 15 coefficients, a shorter coefficient field being padded with zeros.
C21_FifteenCoefficients ==
    \A m \in RegisteredModels : Len(m.coefficients) = 15

\* C22 (as stated): for the constraints of every registered model and
\* every dimension, clamp returns a valid value, returns its argument
\* unchanged exactly when the argument is valid, and is idempotent; with a
\* fourth-factor bound absent every value is valid and clamp_factor4 is
\* the identity.
C22_ClampLaws ==
    \A m \in RegisteredModels :
        LET c == m.constraints
        IN  /\ \A v \in CalcTemps :
                  /\ is_temperature_valid(c, clamp_temperature(c, v))
                  /\ (clamp_temperature(c, v) = v) <=> is_temperature_valid(c, v)
                  /\ clamp_temperature(c, clamp_temperature(c, v))
                       = clamp_temperature(c, v)
            /\ \A v \in CalcPhs :
                  /\ is_ph_valid(c, clamp_ph(c, v))
                  /\ (clamp_ph(c, v) = v) <=> is_ph_valid(c, v)
                  /\ clamp_ph(c, clamp_ph(c, v)) = clamp_ph(c, v)
            /\ \A v \in CalcAws :
                  /\ is_aw_valid(c, clamp_aw(c, v))
                  /\ (clamp_aw(c, v) = v) <=> is_aw_valid(c, v)
                  /\ clamp_aw(c, clamp_aw(c, v)) = clamp_aw(c, v)
            /\ \A v \in CalcFactors :
                  /\ is_factor4_valid(c, clamp_factor4(c, v))
                  /\ (clamp_factor4(c, v) = v) <=> is_factor4_valid(c, v)
                  /\ clamp_factor4(c, clamp_factor4(c, v)) = clamp_factor4(c, v)
                  /\ (c.factor4_min = None \/ c.factor4_max = None)
                        => (is_factor4_valid(c, v) /\ clamp_factor4(c, v) = v)

\* C23: get_combase_engine returns the same engine on every call until a
\* reset, with whatever was loaded into it (the call changes nothing);
\* the first call after a reset returns an engine that no earlier call
\* returned, with nothing loaded: is_available false, an empty registry,
\* no source path.
C23_Singleton ==
    [][ last'.op = "get_combase_engine" =>
          IF _engine # None
          THEN /\ last'.returned = _engine[1]
               /\ UNCHANGED <<models, by_organism, by_type, loaded,
                              model_path, _engine>>
          ELSE /\ last'.returned > instances
               /\ _engine' = Some(last'.returned)
               /\ ~ is_available'
               /\ models' = EmptyRegistry.models
               /\ by_organism' = EmptyRegistry.by_organism
               /\ by_type' = EmptyRegistry.by_type
               /\ model_path' = None ]_vars

\* The engine obtained after a reset of a loaded singleton: the second
\* engine, nothing loaded, although the first one held models.
C23_Witness ==
    /\ last.op = "get_combase_engine"
    /\ last.returned = 2
    /\ loads >= 1
    /\ ~ is_available
    /\ models = EmptyRegistry.models

\* C24: execute, is_available and health_check change nothing in the
\* engine: the loaded flag, the source path, the primary map with its
\* definitions and their coefficient lists, and the two indices are the
\* same after the call as before, whether execute returns or raises; so
\* the same payload executed again returns what the call returned.
C24_QueriesChangeNothing ==
    /\ [][ last'.op \in {"execute", "is_available", "health_check"} =>
            UNCHANGED <<models, by_organism, by_type, loaded, model_path>> ]_vars
    /\ [](last.op = "execute" => last.out = Execute(last.payload))

\* An execute that returned a result from a model stored with fewer than
\* 15 coefficients, which it still has.
C24_Witness ==
    /\ ExecReturned
    /\ Len(RanModel.coefficients) < 15

\* C25: constructing ComBaseParameters fails when the fourth-factor type
\* is not NONE and no value is given, when pH is outside [0, 14] or when
\* water activity is outside [0, 1]; so every parameters object that is
\* constructed with a fourth-factor type carries a fourth-factor value.
C25_ParametersValidation ==
    last.op = "ComBaseParameters" =>
        /\ ((last.factor4_type # F4_NONE /\ last.factor4_value = None)
              \/ last.ph < 0 \/ last.ph > 14
              \/ last.water_activity < 0 \/ last.water_activity > AwScale)
             => last.out = [raised |-> "ValidationError"]
        /\ last.out.raised = "" =>
              (last.out.parameters.factor4_type # F4_NONE
                 => last.out.parameters.factor4_value # None)

\* A construction that fails for the missing fourth-factor value alone.
C25_Witness ==
    /\ last.op = "ComBaseParameters"
    /\ last.factor4_type = F4_CO2
    /\ last.factor4_value = None
    /\ last.ph = 7
    /\ last.water_activity = 96
    /\ last.out.raised = "ValidationError"

\* The elements of a listing.
Range(list) == {list[i] : i \in 1..Len(list)}

RECURSIVE SumLen(_, _)
SumLen(f, keys) ==
    IF keys = {}
    THEN 0
    ELSE LET k == CHOOSE x \in keys : TRUE
         IN  Len(f[k]) + SumLen(f, keys \ {k})

\* C26 (as stated): after any sequence of loads the by-organism and
\* by-type indices list exactly the definitions held in the primary map,
\* each once; the by-type listings together have as many entries as the
\* primary map; and a definition listed under an organism or a type is
\* the one get_model returns for its organism, type and fourth factor.
\* Stated for registries whose records all carry a model-type code 1, 2 or
\* 3 and an organism id in its canonical spelling.
C26_IndicesMatchPrimary ==
    (\A m \in RegisteredModels :
        m.model_id \in 1..3 /\ m.organism_id \in ComBaseOrganism)
    =>
    /\ \A t \in ModelType :
          /\ Range(by_type[t]) = {m \in RegisteredModels : m.model_type = t}
          /\ Cardinality(Range(by_type[t])) = Len(by_type[t])
          /\ \A m \in Range(by_type[t]) :
                OrganismFromString(m.organism_id) # None =>
                   get_model(models, OrganismFromString(m.organism_id)[1], t,
                             m.factor4_type) = Some(m)
    /\ \A o \in ComBaseOrganism :
          /\ Range(by_organism[o])
               = {m \in RegisteredModels : OrganismFromString(m.organism_id) = Some(o)}
          /\ Cardinality(Range(by_organism[o])) = Len(by_organism[o])
          /\ \A m \in Range(by_organism[o]) :
                get_model(models, o, m.model_type, m.factor4_type) = Some(m)
    /\ SumLen(by_type, ModelType) = Cardinality(DOMAIN models)

\* The fourth-factor cells that denote a factor, and the cells that denote
\* "no fourth factor".
KnownFactorCodes ==
    {"co2", "CO2", " co2", "carbon_dioxide", "nitrite", "Nitrite",
     "lactic_acid", "lactic", "acetic_acid", "acetic"}
NoFactorCodes == {"<missing>", "NULL", "null", ""}

\* C27 (as stated): after a load, a valid record of the file whose
\* model-type code is not 1, 2 or 3 is neither stored nor listed as a
\* growth model, and a valid record whose fourth-factor code is neither a
\* known factor nor the NULL / empty sentinel is not what the registry
\* holds as the no-fourth-factor variant of its organism and model type.
C27_CodesDenoteTypes ==
    last.op = "load_models" =>
        \A i \in 1..Len(last.csv_path) :
            LET row == last.csv_path[i]
            IN  ~ Rejected(row) =>
                  /\ row.ModelID.v \notin 1..3 =>
                        \A m \in RegisteredModels \cup Range(by_type[GROWTH]) :
                            m.model_id # row.ModelID.v
                  /\ row.Factor4ID \notin KnownFactorCodes \cup NoFactorCodes =>
                        get_model(models, Strip(row.OrganismID),
                                  from_model_id(row.ModelID.v), F4_NONE)
                          # Some(_parse_row(row))

\* C28: the warning list of a calculation is empty exactly when its
\* within_range flag is true, with and without clamping; so the warning
\* list of an execution result is empty exactly when the calculation of
\* every step was within range.
C28_WarningsIffOutOfRange ==
    ExecReturned =>
        LET par == last.payload.parameters
            steps == last.payload.time_temperature_profile.steps
            Calc(i, clamp) ==
                calculate(RanModel, steps[i].temperature_celsius, par.ph,
                          par.water_activity,
                          IF par.factor4_value = None
                          THEN 0 ELSE par.factor4_value[1],
                          clamp)
        IN  /\ \A i \in 1..Len(steps) :
                  /\ (Calc(i, FALSE).warnings = <<>>) <=> Calc(i, FALSE).within_range
                  /\ Calc(i, TRUE).raised = "" =>
                        ((Calc(i, TRUE).warnings = <<>>) <=> Calc(i, TRUE).within_range)
            /\ (last.out.result.warnings = <<>>)
                  <=> \A i \in 1..Len(steps) : Calc(i, FALSE).within_range

\* A two-step execution whose first step is within range and whose second
\* step is not: the result carries warnings.
C28_Witness ==
    /\ ExecReturned
    /\ Len(last.payload.time_temperature_profile.steps) = 2
    /\ StepCalcOf(1).within_range
    /\ ~ StepCalcOf(2).within_range
    /\ last.out.result.warnings # <<>>

\* C29 (as stated): in the summary of an execution result,
\* factor4_type_used is the fourth-factor type of the model selected and
\* run, and factor4_value_used is the fourth-factor value that the
\* calculation used.
C29_Factor4Used ==
    ExecReturned =>
        /\ last.out.result.model_result.factor4_type_used
             = last.payload.model_selection.factor4_type
        /\ last.out.result.model_result.factor4_type_used
             = RanModel.factor4_type
        /\ last.out.result.model_result.factor4_value_used
             = Some(StepCalcOf(1).factor4_value)

\* C30 (as stated): for a model whose fourth-factor type is NONE the
\* polynomial is evaluated with F = 0: the rate and the warnings of a
\* calculation are those of the same calculation made with a fourth-factor
\* value of 0.
C30_NoFactorIgnoresValue ==
    (/\ last.op = "calculate"
     /\ last.model.factor4_type = F4_NONE
     /\ last.out.raised = "")
    => LET zero == calculate(last.model, last.temperature, last.ph, last.aw,
                             0, last.clamp_to_range)
       IN  /\ zero.raised = ""
           /\ last.out.ln_mu = zero.ln_mu
           /\ last.out.mu_max = zero.mu_max
           /\ last.out.warnings = zero.warnings
====
